---- MODULE Spec2Model ----
(***************************************************************************)
(* sharktuner/boo_tuner.py: main().  A sequential driver that, for every   *)
(* kernel configuration, prepares a workspace, runs the BOO launchable,    *)
(* recovers the compile command from the cache, recompiles to dump         *)
(* dispatch benchmarks, and feeds every benchmark to the tuner while       *)
(* carrying a starter tuning specification from one invocation to the     *)
(* next.                                                                   *)
(*                                                                         *)
(* The state after argparse's parse_known_args (line 37) is the initial    *)
(* state: args and extra_cli_args are inputs.  The external collaborators  *)
(* (the MIOpen parser, get_launchable, the recompile subprocess and        *)
(* tuner_main) are the environment: every outcome they can produce is a    *)
(* nondeterministic choice.  tuner_main either returns or raises an        *)
(* Exception, the launchable either returns or raises.                     *)
(***************************************************************************)
EXTENDS Integers, Sequences, FiniteSets, TLC

\* ------------------------------------------------------------------ bounds
MaxConfigs == 2     \* configurations in a commands file (orchestration runs)
MaxBench == 2       \* benchmark files the recompile leaves in bench/
MaxEntries == 2     \* entries of one kind the launchable leaves in a directory
MaxFileLen == 4     \* characters of a commands file (reader runs)

\* --------------------------------------------------------------- constants
None == "None"                        \* Python's None
DefaultOutputTdSpec == "tuning-spec.mlir"
GlobalStarterTdSpec == "starter.mlir"
CommandsFileName == "cmds.txt"
PinnedTmpDir == "ws"
DefaultDevices == "hip://0"
GivenDevices == "hip://1"
DefaultNumCandidates == 100           \* --num-candidates default
GivenNumCandidates == 5000            \* --num-candidates=5000
NumDispatchCandidates == 100          \* --model-tuner-num-dispatch-candidates
NoFile == <<"<missing>">>             \* the commands file cannot be opened
PriorCacheDir == <<"~/.cache", "/boo">> \* the cache directory set before the run

TuningSpecPathFlag == "--iree-codegen-tuning-spec-path="
\* What the compile_command file may hold: words separated by whitespace,
\* with or without a tuning-spec-path flag.
CompileCommandTexts ==
    {<<"iree-compile", " ", "in.mlir", "\n">>,
     <<"iree-compile", " ", TuningSpecPathFlag, "spec.mlir", " ", "in.mlir", "\n">>,
     <<" ", "iree-compile", " ", "in.mlir", " ", TuningSpecPathFlag, "spec.mlir">>}

Chars == {"#", " ", "a", "\n"}
Whitespace == {" ", "\n"}

TempName(i) == "boo-tuner-" \o ToString(i)
TempNames == {TempName(i) : i \in 1..MaxConfigs}
TempIndex(p) == CHOOSE i \in 1..MaxConfigs : TempName(i) = p
Paths == {PinnedTmpDir} \cup TempNames

\* A directory: whether it exists and what it holds.  An entry is
\* <<kind, cfg>>: the boo_cache or bench tree written while configuration
\* cfg was processed, or content from before the run (cfg = 0).
Entries == {"old", "boo_cache", "bench"} \X (0..MaxConfigs+1)
AbsentDir == [exists |-> FALSE, entries |-> {}]
EmptyDir == [exists |-> TRUE, entries |-> {}]

\* What the launchable left in the cache directory: whether boo_cache
\* exists, how many subdirectories and plain files it holds, and how many
\* compile_command* files each subdirectory holds.
NoLayout == [present |-> FALSE, dirs |-> 0, files |-> 0, cmds |-> 0]
Layouts ==
    {NoLayout} \cup
    [present : {TRUE}, dirs : 0..MaxEntries, files : 0..1, cmds : 0..MaxEntries]

VARIABLES
    pc,                     \* position in main()
    args,                   \* the parsed known arguments (line 37)
    extra_cli_args,         \* the unrecognized trailing tokens (line 37)
    commands_text,          \* content of the commands file
    mio_file_args,          \* line 41-45
    idx,                    \* 1-based index of the configuration in progress
    cli_args,               \* line 49
    starter_td_spec,        \* line 47, 113
    tmp_dir,                \* line 56, 61
    fs,                     \* the workspaces on disk
    cache,                  \* layout of tmp_dir/boo_cache after the launchable
    bench,                  \* -1: bench/ missing, n >= 0: files in bench/
    exit_code,              \* returncode of the latest recompile subprocess
    bench_files,            \* the os.listdir(bench_dir) entries not yet visited
    should_cleanup_tmp_dir, \* line 90, 118
    calls,                  \* history: the tuner_main invocations of the
                            \* configuration in progress, after the latest
                            \* invocation that preceded them
    configs,                \* history: per configuration, what happened
    abort_stage,            \* history: where an uncaught exception ended the run
    cache_override,         \* the cache directory boo_runtime has in effect
    compile_command,        \* line 74; dropped once the subprocess has ended
    compile_args,           \* line 78; dropped once the subprocess has ended
    running,                \* the external calls that have not yet come back
    ever_ok                 \* history: some tuner_main invocation has returned

vars == <<pc, args, extra_cli_args, commands_text, mio_file_args, idx, cli_args,
          starter_td_spec, tmp_dir, fs, cache, bench, exit_code, bench_files,
          should_cleanup_tmp_dir, calls, configs, abort_stage, cache_override,
          compile_command, compile_args, running, ever_ok>>

inputs == <<args, extra_cli_args, commands_text>>

\* ------------------------------------------------------- pure functions

\* f.readlines(): the text cut after every newline, newlines kept.
RECURSIVE ReadLinesFrom(_, _, _)
ReadLinesFrom(text, i, cur) ==
    IF i > Len(text) THEN (IF cur = <<>> THEN <<>> ELSE <<cur>>)
    ELSE IF text[i] = "\n"
         THEN <<Append(cur, text[i])>> \o ReadLinesFrom(text, i + 1, <<>>)
         ELSE ReadLinesFrom(text, i + 1, Append(cur, text[i]))

ReadLines(text) == ReadLinesFrom(text, 1, <<>>)

\* s.startswith("#")
StartsWithHash(s) == Len(s) > 0 /\ s[1] = "#"

\* shlex.split(s) on text without quotes or escapes: the maximal runs of
\* non-whitespace characters, in order ("#" is an ordinary character:
\* shlex.split does not enable comments).
RECURSIVE ShlexFrom(_, _, _)
ShlexFrom(s, i, tok) ==
    IF i > Len(s) THEN (IF tok = <<>> THEN <<>> ELSE <<tok>>)
    ELSE IF s[i] \in Whitespace
         THEN (IF tok = <<>> THEN <<>> ELSE <<tok>>) \o ShlexFrom(s, i + 1, <<>>)
         ELSE ShlexFrom(s, i + 1, Append(tok, s[i]))

ShlexSplit(s) == ShlexFrom(s, 1, <<>>)

\* s.strip(): leading and trailing whitespace removed.
RECURSIVE Strip(_)
Strip(s) ==
    IF s = <<>> THEN s
    ELSE IF Head(s) \in Whitespace THEN Strip(Tail(s))
    ELSE IF s[Len(s)] \in Whitespace THEN Strip(SubSeq(s, 1, Len(s) - 1))
    ELSE s

\* The tokens lines 79-84 append; bench_dir is tmp_dir / "bench".
BenchDir(dir) == <<dir, "/bench">>
AppendedFlags(dir) ==
    << <<TuningSpecPathFlag>>,
       <<"--iree-config-add-tuner-attributes">>,
       <<"--iree-hal-dump-executable-benchmarks-to">>,
       BenchDir(dir),
       <<"-o">>,
       <<"/dev/null">> >>

IsTuningSpecPathFlag(tok) == tok # <<>> /\ tok[1] = TuningSpecPathFlag

\* Variant: the recovered tuning-spec-path flags are dropped and no empty
\* one is appended.
CompileArgs_stripped(cmd, dir) ==
    SelectSeq(ShlexSplit(cmd), LAMBDA t : ~IsTuningSpecPathFlag(t))
        \o Tail(AppendedFlags(dir))

\* Lines 78-85: compile_args.
CompileArgs(cmd, dir) == ShlexSplit(cmd) \o AppendedFlags(dir)

\* boo_runtime.use_cache_dir: the override on entry, the prior value on exit.
UseCacheDirEnter(dir) == <<dir, "/boo_cache">>
UseCacheDirExit(prior) == prior

\* Variant: a "#" anywhere in the line makes it a comment.
IsCommentLine_anywhere(s) == \E i \in 1..Len(s) : s[i] = "#"

IsCommentLine(s) == StartsWithHash(s)

RECURSIVE MapSplit(_)
MapSplit(lines) ==
    IF lines = <<>> THEN <<>>
    ELSE (IF IsCommentLine(Head(lines)) THEN <<>> ELSE <<ShlexSplit(Head(lines))>>)
         \o MapSplit(Tail(lines))

\* [shlex.split(s) for s in f.readlines() if not s.startswith("#")]
ParseCommandsFile(text) == MapSplit(ReadLines(text))

\* Variant: the trailing command-line tokens come first.
CliArgs_extraFirst(file_args, extra) == extra \o file_args

\* file_args + extra_cli_args
CliArgs(file_args, extra) == file_args \o extra

\* Lines 98-102: the starter flag of tuner_args; None when the flag is omitted.
StarterFlag(a, starter) ==
    IF a.starter_td_spec # None THEN starter ELSE None

\* Variant: the flag is set once before the loop, so a failure in an earlier
\* configuration still holds it down.
InitialShouldCleanup_setOnce(a) ==
    a.tmp_dir = "" /\ \A c \in 1..Len(configs) : ~configs[c].failed

\* Variant: the total candidate count is also used as the per-dispatch cap.
TunerArgs_capFromTotal(a, bench_path, starter) ==
    [model |-> "model-unused",
     bench_path |-> bench_path,
     starter |-> StarterFlag(a, starter),
     output |-> a.output_td_spec,
     devices |-> a.devices,
     dispatch_candidates |-> a.num_candidates,
     num_candidates |-> a.num_candidates,
     codegen_pipeline |-> "llvmgpu_tile_and_fuse",
     stop_after |-> "benchmark-dispatches"]

\* Lines 95-109: tuner_args, one field per argument.
TunerArgs(a, bench_path, starter) ==
    [model |-> "model-unused",
     bench_path |-> bench_path,
     starter |-> StarterFlag(a, starter),
     output |-> a.output_td_spec,
     devices |-> a.devices,
     dispatch_candidates |-> NumDispatchCandidates,
     num_candidates |-> a.num_candidates,
     codegen_pipeline |-> "llvmgpu_tile_and_fuse",
     stop_after |-> "benchmark-dispatches"]

\* Line 90: should_cleanup_tmp_dir = not args.tmp_dir
InitialShouldCleanup(a) == a.tmp_dir = ""

\* Line 113 and lines 114-118: the carried starter after an invocation.
\* Variant: a success does not update the carried starter.
StarterAfterSuccess_keep(a, starter) == starter

StarterAfterSuccess(a, starter) == a.output_td_spec

\* Variant: a failure falls back to the global starter.
StarterAfterFailure_reset(a, starter) == a.starter_td_spec

StarterAfterFailure(a, starter) == starter

\* Line 118.
ShouldCleanupAfterFailure(flag) == FALSE

\* Variant: the first entry and the first match are taken.
LayoutAccepted_first(l) == l.present /\ l.dirs >= 1 /\ l.cmds >= 1

\* Lines 67-72: both destructuring assignments succeed.
LayoutAccepted(l) ==
    /\ l.present
    /\ l.dirs + l.files = 1     \* [op_cache_dir] = os.listdir(boo_cache_dir)
    /\ l.dirs = 1               \* os.listdir(boo_cache_dir / op_cache_dir)
    /\ l.cmds = 1               \* [compile_command_path] = [...]

\* Variant: subprocess.run(compile_args, check=True).
RecompileRaises_checked(code) == code # 0

\* subprocess.run(compile_args) without check=True: no exit status raises.
RecompileRaises(code) == FALSE

\* os.listdir(bench_dir) raises FileNotFoundError when bench/ is missing.
ListdirRaises(b) == b < 0

\* The orders os.listdir may return n entries in.
Listings(n) ==
    {s \in [1..n -> 1..n] : \A i, j \in 1..n : s[i] = s[j] => i = j}

\* shutil.rmtree(tmp_dir, ignore_errors=True): the tree is gone, or an
\* error was swallowed and the directory is still there with some content.
RmtreeIgnoringErrors(d) ==
    IF ~d.exists THEN {d}
    ELSE {AbsentDir} \cup {[exists |-> TRUE, entries |-> e] : e \in SUBSET d.entries}

FailedIn(c) == configs[c].failed
CallsOf(c) == {k \in 1..Len(calls) : calls[k].cfg = c}

NewConfig(file_args, cargs) ==
    [file_args |-> file_args, cli_args |-> cargs, ws |-> "", layout |-> NoLayout,
     launched |-> FALSE, returned |-> FALSE, recompiled |-> FALSE,
     exited |-> FALSE, bench |-> -1, listed |-> FALSE, tuned |-> 0,
     failed |-> FALSE, completed |-> FALSE]

Abort(stage) == /\ pc' = "aborted"
                /\ abort_stage' = stage

\* ------------------------------------------------------------------ Init

\* --num-candidates and --devices: both left at their defaults or both given.
ArgsSet ==
    {a \in [commands_file : {None, CommandsFileName},
            output_td_spec : {DefaultOutputTdSpec},
            starter_td_spec : {None, GlobalStarterTdSpec},
            num_candidates : {DefaultNumCandidates, GivenNumCandidates},
            devices : {DefaultDevices, GivenDevices},
            tmp_dir : {"", PinnedTmpDir}] :
        (a.num_candidates = DefaultNumCandidates) <=> (a.devices = DefaultDevices)}

RECURSIVE Repeat(_, _)
Repeat(s, n) == IF n = 0 THEN <<>> ELSE s \o Repeat(s, n - 1)

\* Commands files of the orchestration runs: k one-token lines.
MainTexts == {Repeat(<<"a", "\n">>, k) : k \in 0..MaxConfigs}

InitCommon ==
    /\ pc = "read"
    /\ mio_file_args = <<>>
    /\ idx = 0
    /\ cli_args = <<>>
    /\ starter_td_spec = None
    /\ tmp_dir = ""
    /\ cache = NoLayout
    /\ bench = -1
    /\ exit_code = 0
    /\ bench_files = <<>>
    /\ should_cleanup_tmp_dir = FALSE
    /\ calls = <<>>
    /\ configs = <<>>
    /\ abort_stage = ""
    /\ cache_override = PriorCacheDir
    /\ compile_command = <<>>
    /\ compile_args = <<>>
    /\ running = {}
    /\ ever_ok = FALSE

Init ==
    /\ InitCommon
    /\ args \in ArgsSet
    /\ extra_cli_args = << <<"a">> >>
    /\ commands_text \in (IF args.commands_file = None THEN {<<>>}
                          ELSE MainTexts \cup {NoFile})
    /\ fs \in {f \in [Paths -> {AbsentDir, EmptyDir, [exists |-> TRUE, entries |-> {<<"old", 0>>}]}] :
                 /\ \A p \in TempNames : f[p] = AbsentDir
                 /\ args.tmp_dir = "" => f[PinnedTmpDir] = AbsentDir}

\* --------------------------------------------------------------- actions

\* Lines 39-47.
ReadCommands ==
    /\ pc = "read"
    /\ IF args.commands_file \notin {None, ""}
       THEN IF commands_text = NoFile
            THEN /\ Abort("open")
                 /\ UNCHANGED mio_file_args
            ELSE /\ mio_file_args' = ParseCommandsFile(commands_text)
                 /\ pc' = "loop"
                 /\ UNCHANGED abort_stage
       ELSE /\ mio_file_args' = << <<>> >>
            /\ pc' = "loop"
            /\ UNCHANGED abort_stage
    /\ starter_td_spec' = IF args.commands_file \notin {None, ""} /\ commands_text = NoFile
                          THEN starter_td_spec ELSE args.starter_td_spec
    /\ UNCHANGED <<cache_override, compile_command, compile_args, running, ever_ok>>
    /\ UNCHANGED <<inputs, idx, cli_args, tmp_dir, fs, cache, bench, exit_code,
                   bench_files, should_cleanup_tmp_dir, calls, configs>>

\* Lines 48-54: the next configuration; parser.parse_args exits the process
\* on malformed arguments.
BeginConfig ==
    /\ pc = "loop"
    /\ idx < Len(mio_file_args)
    /\ idx' = idx + 1
    /\ cli_args' = CliArgs(mio_file_args[idx + 1], extra_cli_args)
    /\ configs' = Append(configs, NewConfig(mio_file_args[idx + 1], cli_args'))
    /\ \/ /\ pc' = "setup"
          /\ UNCHANGED abort_stage
       \/ Abort("parse_args")
    /\ calls' = IF calls = <<>> THEN <<>> ELSE <<calls[Len(calls)]>>
    /\ UNCHANGED <<cache_override, compile_command, compile_args, running, ever_ok>>
    /\ UNCHANGED <<inputs, mio_file_args, starter_td_spec, tmp_dir, fs, cache,
                   bench, exit_code, bench_files, should_cleanup_tmp_dir>>

\* Line 48: the loop is exhausted and main() returns.
Finish ==
    /\ pc = "loop"
    /\ idx = Len(mio_file_args)
    /\ pc' = "done"
    /\ UNCHANGED <<cache_override, compile_command, compile_args, running, ever_ok>>
    /\ UNCHANGED <<inputs, mio_file_args, idx, cli_args, starter_td_spec, tmp_dir,
                   fs, cache, bench, exit_code, bench_files,
                   should_cleanup_tmp_dir, calls, configs, abort_stage>>

\* Variant: the pinned workspace is kept as it is (os.makedirs with
\* exist_ok instead of rmtree and mkdir).
SetupPinned_keep ==
    /\ pc = "setup"
    /\ args.tmp_dir # ""
    /\ tmp_dir' = args.tmp_dir
    /\ fs' = [fs EXCEPT ![args.tmp_dir].exists = TRUE]
    /\ pc' = "launch"
    /\ configs' = [configs EXCEPT ![idx].ws = args.tmp_dir]
    /\ UNCHANGED <<cache_override, compile_command, compile_args, running, ever_ok>>
    /\ UNCHANGED <<inputs, mio_file_args, idx, cli_args, starter_td_spec, cache,
                   bench, exit_code, bench_files, should_cleanup_tmp_dir, calls,
                   abort_stage>>

\* Lines 55-59 and 62: the pinned workspace is removed and created again;
\* os.mkdir raises FileExistsError when the removal left it in place.
SetupPinned ==
    /\ pc = "setup"
    /\ args.tmp_dir # ""
    /\ tmp_dir' = args.tmp_dir
    /\ \E d \in RmtreeIgnoringErrors(fs[args.tmp_dir]) :
         IF d.exists
         THEN /\ fs' = [fs EXCEPT ![args.tmp_dir] = d]
              /\ Abort("mkdir")
         ELSE /\ fs' = [fs EXCEPT ![args.tmp_dir] = EmptyDir]
              /\ pc' = "launch"
              /\ UNCHANGED abort_stage
    /\ configs' = [configs EXCEPT ![idx].ws = args.tmp_dir]
    /\ UNCHANGED <<cache_override, compile_command, compile_args, running, ever_ok>>
    /\ UNCHANGED <<inputs, mio_file_args, idx, cli_args, starter_td_spec, cache,
                   bench, exit_code, bench_files, should_cleanup_tmp_dir, calls>>

\* Lines 60-62: tempfile.mkdtemp creates a directory that did not exist.
\* The names are interchangeable: the first free one stands for any.
SetupTemp ==
    /\ pc = "setup"
    /\ args.tmp_dir = ""
    /\ \E p \in TempNames :
         /\ ~fs[p].exists
         /\ \A q \in TempNames : ~fs[q].exists => TempIndex(p) <= TempIndex(q)
         /\ tmp_dir' = p
         /\ fs' = [fs EXCEPT ![p] = EmptyDir]
         /\ configs' = [configs EXCEPT ![idx].ws = p]
    /\ pc' = "launch"
    /\ UNCHANGED <<cache_override, compile_command, compile_args, running, ever_ok>>
    /\ UNCHANGED <<inputs, mio_file_args, idx, cli_args, starter_td_spec, cache,
                   bench, exit_code, bench_files, should_cleanup_tmp_dir, calls,
                   abort_stage>>

\* Lines 65-66: the launchable is called inside use_cache_dir.
LaunchCall ==
    /\ pc = "launch"
    /\ pc' = "launching"
    /\ configs' = [configs EXCEPT ![idx].launched = TRUE]
    /\ cache_override' = UseCacheDirEnter(tmp_dir)
    /\ running' = running \cup {"launchable"}
    /\ UNCHANGED <<compile_command, compile_args, ever_ok>>
    /\ UNCHANGED <<inputs, mio_file_args, idx, cli_args, starter_td_spec, tmp_dir,
                   fs, cache, bench, exit_code, bench_files,
                   should_cleanup_tmp_dir, calls, abort_stage>>

\* The launchable returns, having left some layout in tmp_dir/boo_cache.
LaunchReturn ==
    /\ pc = "launching"
    /\ \E l \in Layouts :
         /\ cache' = l
         /\ configs' = [configs EXCEPT ![idx].layout = l, ![idx].returned = TRUE]
         /\ fs' = IF l.present
                  THEN [fs EXCEPT ![tmp_dir].entries = @ \cup {<<"boo_cache", idx>>}]
                  ELSE fs
    /\ pc' = "discover"
    /\ cache_override' = UseCacheDirExit(PriorCacheDir)
    /\ running' = running \ {"launchable"}
    /\ UNCHANGED <<compile_command, compile_args, ever_ok>>
    /\ UNCHANGED <<inputs, mio_file_args, idx, cli_args, starter_td_spec, tmp_dir,
                   bench, exit_code, bench_files, should_cleanup_tmp_dir, calls,
                   abort_stage>>

\* Variant: the override is set and reset by plain calls around the
\* launchable, so an exception leaves it in effect.
LaunchRaise_leaks ==
    /\ pc = "launching"
    /\ Abort("launchable")
    /\ fs' = fs
    /\ running' = running \ {"launchable"}
    /\ UNCHANGED <<cache_override, compile_command, compile_args, ever_ok>>
    /\ UNCHANGED <<inputs, mio_file_args, idx, cli_args, starter_td_spec, tmp_dir,
                   cache, bench, exit_code, bench_files, should_cleanup_tmp_dir,
                   calls, configs>>

\* The launchable raises; nothing catches it.
LaunchRaise ==
    /\ pc = "launching"
    /\ Abort("launchable")
    /\ \E made \in BOOLEAN :
         fs' = IF made
               THEN [fs EXCEPT ![tmp_dir].entries = @ \cup {<<"boo_cache", idx>>}]
               ELSE fs
    /\ cache_override' = UseCacheDirExit(PriorCacheDir)
    /\ running' = running \ {"launchable"}
    /\ UNCHANGED <<compile_command, compile_args, ever_ok>>
    /\ UNCHANGED <<inputs, mio_file_args, idx, cli_args, starter_td_spec, tmp_dir,
                   cache, bench, exit_code, bench_files, should_cleanup_tmp_dir,
                   calls, configs>>

\* Variant: a failed discovery removes the workspace before the exception
\* leaves main().
Discover_cleansUp ==
    /\ pc = "discover"
    /\ IF LayoutAccepted(cache)
       THEN /\ pc' = "recompile"
            /\ UNCHANGED <<abort_stage, fs>>
       ELSE /\ Abort("discover")
            /\ fs' = [fs EXCEPT ![tmp_dir] = AbsentDir]
    /\ \E text \in CompileCommandTexts :
         compile_command' = IF LayoutAccepted(cache) THEN Strip(text) ELSE compile_command
    /\ UNCHANGED <<cache_override, compile_args, running, ever_ok>>
    /\ UNCHANGED <<inputs, mio_file_args, idx, cli_args, starter_td_spec, tmp_dir,
                   cache, bench, exit_code, bench_files,
                   should_cleanup_tmp_dir, calls, configs>>

\* Lines 67-74: the compile command is recovered from the cache, or one of
\* the two single-element destructurings (or a listdir) raises.
Discover ==
    /\ pc = "discover"
    /\ IF LayoutAccepted(cache)
       THEN /\ pc' = "recompile"
            /\ UNCHANGED abort_stage
       ELSE Abort("discover")
    /\ \E text \in CompileCommandTexts :
         compile_command' = IF LayoutAccepted(cache) THEN Strip(text) ELSE compile_command
    /\ UNCHANGED <<cache_override, compile_args, running, ever_ok>>
    /\ UNCHANGED <<inputs, mio_file_args, idx, cli_args, starter_td_spec, tmp_dir,
                   fs, cache, bench, exit_code, bench_files,
                   should_cleanup_tmp_dir, calls, configs>>

\* Variant: the subprocess is started and not waited for.
RecompileCall_noWait ==
    /\ pc = "recompile"
    /\ pc' = "list"
    /\ configs' = [configs EXCEPT ![idx].recompiled = TRUE]
    /\ compile_args' = CompileArgs(compile_command, tmp_dir)
    /\ running' = running \cup {"subprocess"}
    /\ UNCHANGED <<cache_override, compile_command, ever_ok>>
    /\ UNCHANGED <<inputs, mio_file_args, idx, cli_args, starter_td_spec, tmp_dir,
                   fs, cache, bench, exit_code, bench_files,
                   should_cleanup_tmp_dir, calls, abort_stage>>

\* Lines 77-87: the recompile subprocess is started.
RecompileCall ==
    /\ pc = "recompile"
    /\ pc' = "compiling"
    /\ configs' = [configs EXCEPT ![idx].recompiled = TRUE]
    /\ compile_args' = CompileArgs(compile_command, tmp_dir)
    /\ running' = running \cup {"subprocess"}
    /\ UNCHANGED <<cache_override, compile_command, ever_ok>>
    /\ UNCHANGED <<inputs, mio_file_args, idx, cli_args, starter_td_spec, tmp_dir,
                   fs, cache, bench, exit_code, bench_files,
                   should_cleanup_tmp_dir, calls, abort_stage>>

\* Line 87: subprocess.run cannot start the program and raises OSError.
RecompileSpawnFails ==
    /\ pc = "compiling"
    /\ Abort("spawn")
    /\ running' = running \ {"subprocess"}
    /\ UNCHANGED <<cache_override, compile_command, compile_args, ever_ok>>
    /\ UNCHANGED <<inputs, mio_file_args, idx, cli_args, starter_td_spec, tmp_dir,
                   fs, cache, bench, exit_code, bench_files,
                   should_cleanup_tmp_dir, calls, configs>>

\* Line 87: the subprocess exits with some status, having created bench/
\* with some files or not at all.
RecompileExit ==
    /\ pc = "compiling"
    /\ \E code \in {0, 1}, b \in -1..MaxBench :
         /\ exit_code' = code
         /\ bench' = b
         /\ configs' = [configs EXCEPT ![idx].exited = TRUE, ![idx].bench = b]
         /\ fs' = IF b >= 0
                  THEN [fs EXCEPT ![tmp_dir].entries = @ \cup {<<"bench", idx>>}]
                  ELSE fs
         /\ IF RecompileRaises(code)
            THEN Abort("subprocess")
            ELSE /\ pc' = "list"
                 /\ UNCHANGED abort_stage
    /\ running' = running \ {"subprocess"}
    /\ compile_command' = <<>>
    /\ compile_args' = <<>>
    /\ UNCHANGED <<cache_override, ever_ok>>
    /\ UNCHANGED <<inputs, mio_file_args, idx, cli_args, starter_td_spec, tmp_dir,
                   cache, bench_files, should_cleanup_tmp_dir, calls>>

\* Lines 90-91: the cleanup flag is set and bench/ is listed once.
ListBench ==
    /\ pc = "list"
    /\ should_cleanup_tmp_dir' = InitialShouldCleanup(args)
    /\ IF ListdirRaises(bench)
       THEN /\ Abort("listdir")
            /\ UNCHANGED <<bench_files, configs>>
       ELSE /\ \E order \in Listings(bench) :
                 bench_files' = [i \in 1..bench |-> order[i]]
            /\ configs' = [configs EXCEPT ![idx].listed = TRUE]
            /\ pc' = "iterate"
            /\ UNCHANGED abort_stage
    /\ UNCHANGED <<cache_override, compile_command, compile_args, running, ever_ok>>
    /\ UNCHANGED <<inputs, mio_file_args, idx, cli_args, starter_td_spec, tmp_dir,
                   fs, cache, bench, exit_code, calls>>

\* Lines 91-112: the next benchmark file; tuner_main is called.
TunerCall ==
    /\ pc = "iterate"
    /\ bench_files # <<>>
    /\ calls' = Append(calls,
                  [cfg |-> idx, outcome |-> "running"] @@
                  TunerArgs(args, <<tmp_dir, Head(bench_files)>>, starter_td_spec))
    /\ bench_files' = Tail(bench_files)
    /\ configs' = [configs EXCEPT ![idx].tuned = @ + 1]
    /\ pc' = "tuning"
    /\ running' = running \cup {"tuner"}
    /\ UNCHANGED <<cache_override, compile_command, compile_args, ever_ok>>
    /\ UNCHANGED <<inputs, mio_file_args, idx, cli_args, starter_td_spec, tmp_dir,
                   fs, cache, bench, exit_code, should_cleanup_tmp_dir,
                   abort_stage>>

\* Lines 112-113: tuner_main returns.
TunerReturn ==
    /\ pc = "tuning"
    /\ starter_td_spec' = StarterAfterSuccess(args, starter_td_spec)
    /\ calls' = [calls EXCEPT ![Len(calls)].outcome = "ok"]
    /\ pc' = "iterate"
    /\ running' = running \ {"tuner"}
    /\ ever_ok' = TRUE
    /\ UNCHANGED <<cache_override, compile_command, compile_args>>
    /\ UNCHANGED <<inputs, mio_file_args, idx, cli_args, tmp_dir, fs, cache,
                   bench, exit_code, bench_files, should_cleanup_tmp_dir, configs,
                   abort_stage>>

\* Variant: the handler sits outside the loop, so a failure skips the
\* remaining benchmark files of the configuration.
TunerRaise_leavesLoop ==
    /\ pc = "tuning"
    /\ should_cleanup_tmp_dir' = FALSE
    /\ calls' = [calls EXCEPT ![Len(calls)].outcome = "raise"]
    /\ bench_files' = <<>>
    /\ configs' = [configs EXCEPT ![idx].failed = TRUE]
    /\ pc' = "iterate"
    /\ running' = running \ {"tuner"}
    /\ UNCHANGED <<cache_override, compile_command, compile_args, ever_ok>>
    /\ UNCHANGED <<inputs, mio_file_args, idx, cli_args, starter_td_spec, tmp_dir,
                   fs, cache, bench, exit_code, abort_stage>>

\* Variant: a failed benchmark file is put back to be tuned again.
TunerRaise_retries ==
    /\ pc = "tuning"
    /\ should_cleanup_tmp_dir' = FALSE
    /\ bench_files' = <<calls[Len(calls)].bench_path[2]>> \o bench_files
    /\ calls' = SubSeq(calls, 1, Len(calls) - 1)
    /\ configs' = [configs EXCEPT ![idx].tuned = @ - 1]
    /\ pc' = "iterate"
    /\ running' = running \ {"tuner"}
    /\ UNCHANGED <<cache_override, compile_command, compile_args, ever_ok>>
    /\ UNCHANGED <<inputs, mio_file_args, idx, cli_args, starter_td_spec, tmp_dir,
                   fs, cache, bench, exit_code, abort_stage>>

\* Lines 114-118: tuner_main raises an Exception.
TunerRaise ==
    /\ pc = "tuning"
    /\ starter_td_spec' = StarterAfterFailure(args, starter_td_spec)
    /\ should_cleanup_tmp_dir' = ShouldCleanupAfterFailure(should_cleanup_tmp_dir)
    /\ calls' = [calls EXCEPT ![Len(calls)].outcome = "raise"]
    /\ configs' = [configs EXCEPT ![idx].failed = TRUE]
    /\ pc' = "iterate"
    /\ running' = running \ {"tuner"}
    /\ UNCHANGED <<cache_override, compile_command, compile_args, ever_ok>>
    /\ UNCHANGED <<inputs, mio_file_args, idx, cli_args, tmp_dir, fs, cache,
                   bench, exit_code, bench_files, abort_stage>>

\* Lines 119-120: the cleanup decision at the end of a configuration;
\* shutil.rmtree without ignore_errors removes the tree or raises.
Cleanup ==
    /\ pc = "iterate"
    /\ bench_files = <<>>
    /\ IF should_cleanup_tmp_dir
       THEN \/ /\ fs' = [fs EXCEPT ![tmp_dir] = AbsentDir]
               /\ configs' = [configs EXCEPT ![idx].completed = TRUE]
               /\ pc' = "loop"
               /\ UNCHANGED abort_stage
            \/ /\ Abort("rmtree")
               /\ UNCHANGED <<fs, configs>>
       ELSE /\ configs' = [configs EXCEPT ![idx].completed = TRUE]
            /\ pc' = "loop"
            /\ UNCHANGED <<fs, abort_stage>>
    /\ UNCHANGED <<cache_override, compile_command, compile_args, running, ever_ok>>
    /\ UNCHANGED <<inputs, mio_file_args, idx, cli_args, starter_td_spec, tmp_dir,
                   cache, bench, exit_code, bench_files, should_cleanup_tmp_dir,
                   calls>>

Next ==
    \/ ReadCommands
    \/ BeginConfig
    \/ Finish
    \/ SetupPinned
    \/ SetupTemp
    \/ LaunchCall
    \/ LaunchReturn
    \/ LaunchRaise
    \/ Discover
    \/ RecompileCall
    \/ RecompileSpawnFails
    \/ RecompileExit
    \/ ListBench
    \/ TunerCall
    \/ TunerReturn
    \/ TunerRaise
    \/ Cleanup

Spec == Init /\ [][Next]_vars

\* The same runs when every step that can be taken is eventually taken:
\* main() goes on whenever it can, and every external call in progress
\* eventually returns or raises.
SpecLive == Init /\ [][Next]_vars /\ WF_vars(Next)

\* ------------------------------------------------- the configuration reader
\* Runs that exercise lines 39-54 on every commands file up to MaxFileLen
\* characters; the rest of the loop body (lines 55-120), which touches
\* neither the parsed lists nor the loop index, is one step.

Texts == UNION {[1..n -> Chars] : n \in 0..MaxFileLen}

ExtraArgsSet == {<<>>, << <<"a">> >>, << <<"a">>, <<"#">> >>}

InitReader ==
    /\ InitCommon
    /\ args \in [commands_file : {None, "", CommandsFileName},
                 output_td_spec : {DefaultOutputTdSpec},
                 starter_td_spec : {None},
                 num_candidates : {DefaultNumCandidates},
                 devices : {DefaultDevices},
                 tmp_dir : {""}]
    /\ extra_cli_args \in ExtraArgsSet
    /\ commands_text \in (IF args.commands_file = CommandsFileName
                          THEN Texts \cup {NoFile} ELSE {<<>>})
    /\ fs = [p \in Paths |-> AbsentDir]

\* Lines 55-120 for one configuration: it runs to its end or an uncaught
\* exception ends the run.
ConfigBody ==
    /\ pc = "setup"
    /\ \/ /\ pc' = "loop"
          /\ configs' = [configs EXCEPT ![idx].completed = TRUE]
          /\ UNCHANGED abort_stage
       \/ /\ Abort("body")
          /\ UNCHANGED configs
    /\ UNCHANGED <<cache_override, compile_command, compile_args, running, ever_ok>>
    /\ UNCHANGED <<inputs, mio_file_args, idx, cli_args, starter_td_spec, tmp_dir,
                   fs, cache, bench, exit_code, bench_files,
                   should_cleanup_tmp_dir, calls>>

NextReader ==
    \/ ReadCommands
    \/ BeginConfig
    \/ Finish
    \/ ConfigBody

SpecReader == InitReader /\ [][NextReader]_vars

\* ------------------------------------------------------------ properties

Pinned == args.tmp_dir # ""
Cfgs == 1..Len(configs)
Workspace(c) == fs[configs[c].ws]

\* C1: whenever tuning invocation k returned normally, invocation k+1 (in
\* the same or the next configuration) is passed the output specification
\* of invocation k as its starter, whether or not --starter-td-spec was given.
C1_SuccessorStartsFromOutput ==
    \A k \in 1..Len(calls) - 1 :
        calls[k].outcome = "ok" => calls[k + 1].starter = calls[k].output

\* C2: whenever tuning invocation k raised, invocation k+1 is passed the
\* very starter (or absence of one) that invocation k was passed.
C2_FailureKeepsStarter ==
    \A k \in 1..Len(calls) - 1 :
        calls[k].outcome = "raise" => calls[k + 1].starter = calls[k].starter

\* C2 witness: a failed invocation that had been passed the output of an
\* earlier success is followed by an invocation of the next configuration.
C2_Witness ==
    \E k \in 1..Len(calls) - 1 :
        /\ calls[k].outcome = "raise"
        /\ calls[k].starter = args.output_td_spec
        /\ calls[k + 1].cfg # calls[k].cfg

\* C3: when a configuration's processing has completed, its workspace is
\* gone if and only if no --tmp-dir was pinned and none of that
\* configuration's tuning invocations failed.
C3_DeletedIffUnpinnedAndNoFailure ==
    (pc = "loop" /\ idx >= 1) =>
        (~Workspace(idx).exists <=> (~Pinned /\ ~FailedIn(idx)))

\* C3 witness: the second configuration's workspace is deleted although a
\* tuning invocation of the first configuration failed.
C3_Witness ==
    /\ pc = "loop"
    /\ idx = 2
    /\ FailedIn(1)
    /\ CallsOf(2) # {}
    /\ ~Workspace(2).exists
    /\ Workspace(1).exists

\* The tuner was invoked exactly once for each file of c's bench directory.
TunedOnceEach(c) ==
    /\ configs[c].tuned = configs[c].bench
    /\ Cardinality(CallsOf(c)) = configs[c].bench
    /\ \A b \in 1..configs[c].bench :
         Cardinality({k \in CallsOf(c) :
                        calls[k].bench_path = <<configs[c].ws, b>>}) = 1

\* C4: every configuration whose tuning loop has ended had the tuner invoked
\* once per benchmark file, each file exactly once, whichever invocations
\* raised; a run in
\* which no compilation step failed ends with every configuration so
\* processed; and no run ends in a configuration one of whose tuning
\* invocations raised.
C4_FailureIsolation ==
    /\ \A c \in Cfgs : configs[c].completed => configs[c].tuned = configs[c].bench
    /\ (pc = "loop" /\ idx >= 1) => TunedOnceEach(idx)
    /\ pc = "done" =>
         /\ Len(configs) = Len(mio_file_args)
         /\ \A c \in Cfgs : configs[c].completed
    /\ \A c \in Cfgs : FailedIn(c) => ~(pc = "aborted" /\ idx = c)

\* C4 witness: the run is over, the first of two invocations of the first
\* configuration raised, and the second configuration was tuned as well.
C4_Witness ==
    /\ pc = "done"
    /\ Len(configs) = 2
    /\ configs[1].tuned = 2
    /\ configs[1].failed
    /\ ~configs[2].failed
    /\ Cardinality(CallsOf(2)) = 2

\* C5: once a tuning invocation of a configuration has failed, that
\* configuration's workspace stays on disk with its boo_cache and bench
\* contents for the rest of the run, pinned or not.
C5_FailedWorkspaceRetained ==
    \A c \in Cfgs :
        FailedIn(c) =>
            /\ Workspace(c).exists
            /\ {<<"boo_cache", c>>, <<"bench", c>>} \subseteq Workspace(c).entries

\* The cache layout the claim calls unexpected.
UnexpectedLayout(l) == ~l.present \/ l.dirs # 1 \/ l.cmds # 1

\* C6: when the launchable has returned for a configuration and the cache
\* does not hold exactly one subdirectory with exactly one compile_command
\* file, the run fails there: no recompile, no tuning invocation for that
\* configuration, and no later configuration.
C6_UnexpectedLayoutEndsRun ==
    \A c \in Cfgs :
        (configs[c].returned /\ UnexpectedLayout(configs[c].layout)) =>
            /\ pc \in {"discover", "aborted"}
            /\ pc = "aborted" => abort_stage = "discover"
            /\ idx = c
            /\ Len(configs) = c
            /\ ~configs[c].recompiled
            /\ configs[c].tuned = 0

\* C6 witness: the first of two configurations left two subdirectories in
\* the cache and the run has failed.
C6_Witness ==
    /\ pc = "aborted"
    /\ idx = 1
    /\ Len(mio_file_args) = 2
    /\ configs[1].returned
    /\ configs[1].layout.dirs = 2

\* An uncaught exception ended the run in configuration c before the
\* cleanup decision (line 119) was reached.
FailedBeforeCleanupDecision(c) ==
    pc = "aborted" /\ idx = c /\ abort_stage # "rmtree"

\* C7 (as claimed): whatever the exit status, a recompile that leaves no
\* benchmark files, bench directory missing or empty, gives zero tuning
\* invocations and no error.
C7_NoBenchFilesNoError ==
    \A c \in Cfgs :
        (configs[c].exited /\ configs[c].bench <= 0) =>
            /\ configs[c].tuned = 0
            /\ ~FailedBeforeCleanupDecision(c)

\* C7 (amended): whatever the exit status, a recompile that leaves an
\* existing, empty bench directory gives zero tuning invocations and no
\* error up to the cleanup decision; one that leaves the bench directory
\* missing makes the listing raise, which ends the run in that configuration.
C7_EmptyBenchSilentMissingBenchFatal ==
    \A c \in Cfgs :
        configs[c].exited =>
            /\ configs[c].bench = 0 =>
                 /\ configs[c].tuned = 0
                 /\ ~FailedBeforeCleanupDecision(c)
            /\ configs[c].bench > 0 => ~FailedBeforeCleanupDecision(c)
            /\ configs[c].bench < 0 =>
                 /\ configs[c].tuned = 0
                 /\ idx = c
                 /\ pc \in {"list", "aborted"}
                 /\ pc = "aborted" => abort_stage = "listdir"

\* C7 witness: the recompile of the first configuration exited with status
\* 1 leaving an empty bench directory, and the second configuration began.
C7_Witness ==
    /\ Len(configs) = 2
    /\ configs[1].exited
    /\ exit_code = 1
    /\ configs[1].bench = 0
    /\ configs[1].completed
    /\ pc = "setup"

\* C8: with a pinned --tmp-dir the workspace exists and is empty whenever
\* the launchable call of any configuration is about to begin.
C8_PinnedWorkspaceEmptyAtLaunch ==
    (pc = "launch" /\ Pinned) =>
        /\ tmp_dir = args.tmp_dir
        /\ fs[tmp_dir].exists
        /\ fs[tmp_dir].entries = {}

\* C8 witness: the second configuration is about to launch in the pinned
\* workspace in which the first one left its cache and bench directories.
C8_Witness ==
    /\ pc = "launch"
    /\ Pinned
    /\ idx = 2
    /\ configs[1].layout.present
    /\ configs[1].bench > 0
    /\ configs[1].completed

\* The commands file was named and could be opened.
FileRead ==
    /\ args.commands_file \notin {None, ""}
    /\ commands_text # NoFile
    /\ pc # "read"

\* The lines of the commands file, by where they start and end.
LineStarts == {p \in 1..Len(commands_text) : p = 1 \/ commands_text[p - 1] = "\n"}
LineEnd(p) ==
    IF \E q \in p..Len(commands_text) : commands_text[q] = "\n"
    THEN CHOOSE q \in p..Len(commands_text) :
            /\ commands_text[q] = "\n"
            /\ \A r \in p..q - 1 : commands_text[r] # "\n"
    ELSE Len(commands_text)
NonCommentStarts == {p \in LineStarts : commands_text[p] # "#"}
Kth(S, k) == CHOOSE x \in S : Cardinality({y \in S : y < x}) = k - 1

\* toks are the whitespace-separated words of commands_text[from..to].
IsWordsOf(toks, from, to) ==
    LET T == commands_text
        starts == {i \in from..to :
                     T[i] \notin Whitespace /\ (i = from \/ T[i - 1] \in Whitespace)}
        stop(i) == CHOOSE j \in i..to :
                     /\ \A r \in i..j : T[r] \notin Whitespace
                     /\ j = to \/ T[j + 1] \in Whitespace
    IN /\ Len(toks) = Cardinality(starts)
       /\ \A k \in 1..Len(toks) :
            toks[k] = SubSeq(T, Kth(starts, k), stop(Kth(starts, k)))

\* The k-th configuration comes from the k-th line that is not a comment.
FromKthNonCommentLine(k) ==
    IsWordsOf(configs[k].file_args, Kth(NonCommentStarts, k),
              LineEnd(Kth(NonCommentStarts, k)))

\* C9 (amended): the processed configurations are, in file order, one per
\* line that does not start with "#"; a comment line yields none, and a
\* blank line yields a configuration with an empty token list.
C9_OneConfigPerNonCommentLine ==
    FileRead =>
        /\ Len(mio_file_args) = Cardinality(NonCommentStarts)
        /\ Len(configs) <= Len(mio_file_args)
        /\ \A k \in Cfgs : FromKthNonCommentLine(k)
        /\ pc = "done" => Len(configs) = Cardinality(NonCommentStarts)

\* C9 (as claimed): one configuration per non-comment line, and no blank
\* line yields an empty configuration.
C9_BlankLinesYieldNoConfig ==
    /\ C9_OneConfigPerNonCommentLine
    /\ FileRead => \A k \in Cfgs : configs[k].file_args # <<>>

\* C9 witness: a file of a blank line, a comment line and a one-token line
\* was processed to the end: two configurations, the first one empty.
C9_Witness ==
    /\ FileRead
    /\ pc = "done"
    /\ commands_text = <<"\n", "#", "\n", "a">>
    /\ Len(configs) = 2
    /\ configs[1].file_args = <<>>
    /\ configs[2].file_args = << <<"a">> >>

\* a is f followed by e.
IsFollowedBy(a, f, e) ==
    /\ Len(a) = Len(f) + Len(e)
    /\ \A i \in 1..Len(f) : a[i] = f[i]
    /\ \A j \in 1..Len(e) : a[Len(f) + j] = e[j]

\* C10: the argument list of every configuration is its commands-file
\* tokens followed by the trailing command-line tokens; without a commands
\* file there is one configuration, whose argument list is those trailing
\* tokens alone.
C10_CliArgsAreFileThenExtra ==
    /\ \A k \in Cfgs :
         IsFollowedBy(configs[k].cli_args, mio_file_args[k], extra_cli_args)
    /\ idx >= 1 => cli_args = configs[idx].cli_args
    /\ (args.commands_file \in {None, ""} /\ pc # "read") =>
         /\ Len(mio_file_args) = 1
         /\ \A k \in Cfgs : configs[k].cli_args = extra_cli_args
         /\ pc = "done" => Len(configs) = 1

\* C10 witness: the second line of a commands file gave one token and two
\* trailing command-line tokens follow it.
C10_Witness ==
    /\ FileRead
    /\ Len(configs) = 2
    /\ configs[2].file_args = << <<"#">> >>
    /\ Len(extra_cli_args) = 2
    /\ pc = "done"

\* C11: every tuning invocation carries the --num-candidates value of the
\* command line, the fixed per-dispatch cap of 100, the one --output-td-spec
\* path and the --devices value, whatever happened before it.
C11_SameTunerArgsEveryInvocation ==
    \A k \in 1..Len(calls) :
        /\ calls[k].num_candidates = args.num_candidates
        /\ calls[k].dispatch_candidates = 100
        /\ calls[k].output = args.output_td_spec
        /\ calls[k].devices = args.devices

\* C11 witness: with --num-candidates=5000, an invocation of the second
\* configuration follows a failed one.
C11_Witness ==
    /\ args.num_candidates = 5000
    /\ Len(calls) >= 2
    /\ calls[Len(calls) - 1].outcome = "raise"
    /\ calls[Len(calls)].cfg = 2
    /\ calls[Len(calls)].num_candidates = 5000

\* C12: the cache-directory override is in effect exactly while the
\* launchable call of a configuration is in progress, and it then names
\* that configuration's boo_cache; at every other point, after a return as
\* after an exception, the prior cache directory is in effect.
C12_OverrideOnlyDuringLaunch ==
    /\ pc = "launching" => cache_override = <<tmp_dir, "/boo_cache">>
    /\ pc # "launching" => cache_override = PriorCacheDir

\* C12 witness: the launchable of the second configuration raised and the
\* prior cache directory is back in effect.
C12_Witness ==
    /\ pc = "aborted"
    /\ abort_stage = "launchable"
    /\ idx = 2
    /\ cache_override = PriorCacheDir

\* toks are the whitespace-separated words of the text T.
IsWordsIn(toks, T) ==
    LET starts == {i \in 1..Len(T) :
                     T[i] \notin Whitespace /\ (i = 1 \/ T[i - 1] \in Whitespace)}
        stop(i) == CHOOSE j \in i..Len(T) :
                     /\ \A r \in i..j : T[r] \notin Whitespace
                     /\ j = Len(T) \/ T[j + 1] \in Whitespace
    IN /\ Len(toks) = Cardinality(starts)
       /\ \A k \in 1..Len(toks) :
            toks[k] = SubSeq(T, Kth(starts, k), stop(Kth(starts, k)))

\* The token carries a tuning-spec path of the recovered command.
CarriesSpecPath(tok) == \E i \in 1..Len(tok) : tok[i] = "spec.mlir"

\* The last n tokens of the executed command are exactly these.
EndsWith(a, tail) ==
    /\ Len(a) >= Len(tail)
    /\ \A j \in 1..Len(tail) : a[Len(a) - Len(tail) + j] = tail[j]

\* C13 (as claimed): the executed command is the recovered words without
\* any tuning-spec-path flag, followed by the attribute-injection flag, the
\* dump flag with the bench directory, and -o /dev/null; no token carries
\* the original tuning-spec path.
C13_SpecPathFlagStripped ==
    pc = "compiling" =>
        /\ EndsWith(compile_args,
                    << <<"--iree-config-add-tuner-attributes">>,
                       <<"--iree-hal-dump-executable-benchmarks-to">>,
                       <<tmp_dir, "/bench">>, <<"-o">>, <<"/dev/null">> >>)
        /\ SubSeq(compile_args, 1, Len(compile_args) - 5) =
             SelectSeq(ShlexSplit(compile_command),
                       LAMBDA t : ~IsTuningSpecPathFlag(t))
        /\ \A k \in 1..Len(compile_args) : ~CarriesSpecPath(compile_args[k])

\* C13 (amended): the executed command is every word of the recovered
\* command, tuning-spec-path flags included, followed by an empty
\* tuning-spec-path flag, the attribute-injection flag, the dump flag with
\* the bench directory, and -o /dev/null.
C13_AllWordsKeptEmptyFlagAppended ==
    pc = "compiling" =>
        /\ Len(compile_args) >= 6
        /\ EndsWith(compile_args,
                    << <<"--iree-codegen-tuning-spec-path=">>,
                       <<"--iree-config-add-tuner-attributes">>,
                       <<"--iree-hal-dump-executable-benchmarks-to">>,
                       <<tmp_dir, "/bench">>, <<"-o">>, <<"/dev/null">> >>)
        /\ IsWordsIn(SubSeq(compile_args, 1, Len(compile_args) - 6), compile_command)

\* C13 witness: the recovered command of the second configuration carried
\* a tuning-spec path, and the command being executed still carries it.
C13_Witness ==
    /\ pc = "compiling"
    /\ idx = 2
    /\ \E i \in 1..Len(compile_command) : compile_command[i] = "spec.mlir"
    /\ \E k \in 1..Len(compile_args) : CarriesSpecPath(compile_args[k])

\* The steps of configuration c so far happened in the order of the code.
StepsInOrder(c) ==
    /\ configs[c].launched => configs[c].ws # ""
    /\ configs[c].returned => configs[c].launched
    /\ configs[c].recompiled => configs[c].returned
    /\ configs[c].exited => configs[c].recompiled
    /\ configs[c].listed => configs[c].exited
    /\ configs[c].tuned > 0 => configs[c].listed
    /\ configs[c].completed => configs[c].listed /\ configs[c].tuned = configs[c].bench

\* C14: within a configuration the steps follow the order setup, launchable,
\* discovery, recompile, tuning invocations, cleanup decision; a later
\* configuration exists only once the one before it has completed; an
\* external call is in progress only while main() waits for it at its call
\* site, so never two at a time, and only the latest tuner invocation can
\* be the one in progress.
C14_SequentialSteps ==
    /\ \A c \in Cfgs : StepsInOrder(c)
    /\ \A c \in Cfgs : c < Len(configs) => configs[c].completed
    /\ Cardinality(running) <= 1
    /\ "launchable" \in running <=> pc = "launching"
    /\ "subprocess" \in running <=> pc = "compiling"
    /\ "tuner" \in running <=> pc = "tuning"
    /\ \A k \in 1..Len(calls) :
         calls[k].outcome = "running" <=> (k = Len(calls) /\ pc = "tuning")
    /\ pc \in {"setup", "launch", "launching", "discover", "recompile",
                "compiling", "list"} => configs[idx].tuned = 0

\* C14 witness: the second tuner invocation of the second configuration is
\* in progress, alone, after the first configuration completed.
C14_Witness ==
    /\ pc = "tuning"
    /\ idx = 2
    /\ configs[2].tuned = 2
    /\ running = {"tuner"}
    /\ configs[1].completed
    /\ configs[1].tuned = 2

FatalStages == {"launchable", "discover", "spawn", "listdir"}

\* C15: when an uncaught error ends the run during a configuration (the
\* launchable raising, an unexpected cache layout, the subprocess or the
\* listing of bench failing), that configuration's workspace is still on
\* disk; a workspace of the run is gone only if its configuration's tuning
\* loop ran to its end.
C15_WorkspaceKeptOnFatalError ==
    /\ (pc = "aborted" /\ abort_stage \in FatalStages) =>
         /\ Workspace(idx).exists
         /\ ~configs[idx].completed
    /\ \A c \in Cfgs :
         (configs[c].ws # "" /\ ~Workspace(c).exists) => configs[c].completed

\* C15 witness: the listing of bench failed in the second configuration of
\* an unpinned run and its temporary workspace, holding its cache, is on disk.
C15_Witness ==
    /\ pc = "aborted"
    /\ abort_stage = "listdir"
    /\ ~Pinned
    /\ idx = 2
    /\ Workspace(2).exists
    /\ <<"boo_cache", 2>> \in Workspace(2).entries

\* C16: once line 47 has run, the carried starter is the global
\* --starter-td-spec value (possibly None) as long as no tuning invocation
\* has returned, and the --output-td-spec path from the first return on,
\* whatever fails or begins afterwards.
C16_CarriedStarterValue ==
    (pc # "read" /\ abort_stage # "open") =>
        starter_td_spec = IF ever_ok THEN args.output_td_spec
                          ELSE args.starter_td_spec

\* C16 witness: in the second configuration, after a success and then a
\* failure in the first, the carried starter is the output path.
C16_Witness ==
    /\ idx = 2
    /\ pc = "launch"
    /\ Len(calls) = 1
    /\ calls[1].outcome = "raise"
    /\ configs[1].tuned = 2
    /\ ever_ok
    /\ starter_td_spec = args.output_td_spec
    /\ args.starter_td_spec = GlobalStarterTdSpec

Terminated == pc \in {"done", "aborted"}

\* C17: when every external call eventually returns or raises, the run
\* eventually ends, by main() returning after the last configuration or by
\* an uncaught exception; and no step ever goes back to an earlier
\* configuration or hands a benchmark file back to be tuned again.
C17_RunTerminates ==
    /\ <>Terminated
    /\ [][/\ idx' >= idx
          /\ (idx' = idx /\ idx >= 1) =>
                /\ Len(bench_files') <= Len(bench_files) \/ pc = "list"
                /\ configs'[idx].tuned >= configs[idx].tuned]_vars

\* C17 witness: main() returned after two configurations in each of which
\* a tuner invocation raised.
C17_Witness ==
    /\ pc = "done"
    /\ Len(configs) = 2
    /\ configs[1].failed
    /\ configs[2].failed
    /\ configs[2].tuned = 2

====
